---- MODULE Spec2Model ----
(***************************************************************************)
(* asyncdbview: a read-through object cache between application code and   *)
(* an origin database.  The model follows src/asyncdbview/asyncdbview.py:  *)
(* the ADBV session (lifecycle, lock, long-lived cache session with its    *)
(* identity map), the _ever_loaded ledger, the wrappers, and the loaders   *)
(* _load, _field_loader, _by_id_field_loader and _load_from_query, cut at  *)
(* their await points.  The schema is the one of the unit tests: a parent  *)
(* entity _A (name, relation bs) and a child entity _B (name, a_id,        *)
(* relation a).                                                            *)
(***************************************************************************)
EXTENDS Integers, Sequences, FiniteSets, Bags, TLC

VARIABLES
    origin,      \* rows of the origin database
    cache,       \* rows of the cache store, a bag (persists across sessions)
    ledger,      \* rows of the _ever_loaded table (persists across sessions)
    sess,        \* number of the ADBV instance in use
    mode,        \* ADBV._mode
    opened,      \* ADBV._opened: "None", "True" or "False"
    lock,        \* ADBV._lock: 0 when free, else the task holding it
    imap,        \* identity map of ADBV._cache_session: the cache objects
    detached,    \* cache objects a closed or replaced cache session let go of
    wrappers,    \* per row, the ADBVObjects this ADBV instance constructed for it
    task,        \* the coroutines: position, arguments, locals, result
    originCalls, \* origin sessions opened by the ADBV instance in use
    ops,         \* calls started so far
    changes,     \* origin-side changes so far
    cfg,         \* the bounds of the run
    fetched,     \* history: aspects an origin-fetching load completed for
    relSnap,     \* history: per parent, the children a FRESHEN session returned
    atChange,    \* history: the cache store when the origin last changed
    life,        \* history: how often this ADBV instance established its
                 \* _cache_session, and whether __aexit__ has begun on it
    freshened    \* history: aspects loaded under FRESHEN since the last change

vars == <<origin, cache, ledger, sess, mode, opened, lock, imap, detached, wrappers,
          task, originCalls, ops, changes, cfg, fetched, relSnap, atChange, life,
          freshened>>

(***************************************************************************)
(* Bounds.                                                                 *)
(***************************************************************************)
MaxSessions == 2       \* ADBV instances, one after the other, on one cache store
MaxOps == 4            \* loader calls of a sequential run
MaxChanges == 1        \* origin-side changes
MaxConcOps == 2        \* loader calls of a concurrent run

SeqTasks == {1}
ConcTasks == {1, 2}

AIds == {1, 2}
BIds == {1, 2}
Keys == ({"A"} \X AIds) \cup ({"B"} \X BIds)

(***************************************************************************)
(* Mode and _min_mode.                                                     *)
(***************************************************************************)
OFFLINE == 1
PREFER_CACHE == 2
FRESHEN == 3
NoMode == 0   \* limit_mode=None
Modes == {OFFLINE, PREFER_CACHE, FRESHEN}
Limits == {NoMode} \cup Modes

Min(a, b) == IF a <= b THEN a ELSE b

\* max in the place of min
MinModeLargest(mode1, mode2) ==
    IF mode1 = NoMode THEN mode2 ELSE IF mode1 <= mode2 THEN mode2 ELSE mode1

MinModeIgnoresSession(mode1, mode2) ==
    IF mode1 = NoMode THEN mode2 ELSE mode1

MinMode(mode1, mode2) ==
    IF mode1 = NoMode THEN mode2 ELSE Min(mode1, mode2)

(***************************************************************************)
(* Wrapper classes and their __underlying_class__.                         *)
(***************************************************************************)
WrapperClasses == {"WA", "WB"}
Underlying(wc) == IF wc = "WA" THEN "A" ELSE "B"

(***************************************************************************)
(* Rows.  a_id is 0 on rows of _A, which has no such column.               *)
(***************************************************************************)
Row(k, n, a) == [key |-> k, name |-> n, a_id |-> a]
RowsOf(db, k) == {r \in db : r.key = k}
ChildRows(db, a) == {r \in db : r.key[1] = "B" /\ r.a_id = a}
\* the where clause dropped: every _B row
JoinRowsUnfiltered(db, a) == {r \in db : r.key[1] = "B"}

\* select(_B, _A).join(_A.bs).where(_A.id == a): the _B rows of parent a,
\* provided the _A row is there to join with
JoinRows(db, a) == IF RowsOf(db, <<"A", a>>) = {} THEN {} ELSE ChildRows(db, a)
KeysOf(rows) == {r.key : r \in rows}

(***************************************************************************)
(* The ledger: _ever_loaded, keyed by (cls, identity as text, field).      *)
(* An identity is a scalar (as _load and _load_from_query pass it) or the  *)
(* tuple identity_key gives.                                               *)
(***************************************************************************)
Scalar(i) == [tuple |-> FALSE, v |-> <<i>>]
Tuple(s) == [tuple |-> TRUE, v |-> s]
IdentityStr(identity) ==
    IF identity.tuple /\ Len(identity.v) # 1
    THEN ToString(identity.v)
    ELSE ToString(identity.v[1])

LedgerKey(cls, identity, attrname) == <<cls, IdentityStr(identity), attrname>>

EverLoadedExistsEntityOnly(led, cls, identity, attrname) ==
    attrname = "-" /\ LedgerKey(cls, identity, attrname) \in led

\* an entry of any identity of the class answers for every identity
EverLoadedExistsAnyIdentity(led, cls, identity, attrname) ==
    \E e \in led : e[1] = cls /\ e[3] = attrname

EverLoadedExists(led, cls, identity, attrname) ==
    LedgerKey(cls, identity, attrname) \in led

\* the mark of an identity is filed under the field 'a'
EverLoadedMarkAsField(led, cls, identity, attrname) ==
    led \cup {LedgerKey(cls, identity, IF attrname = "-" THEN "a" ELSE attrname)}

\* only identities are marked, relations and queries never
EverLoadedMarkIdentityOnly(led, cls, identity, attrname) ==
    IF attrname = "-" THEN led \cup {LedgerKey(cls, identity, attrname)} ELSE led

\* the mark of an aspect marks the identity as well
EverLoadedMarkWithSentinel(led, cls, identity, attrname) ==
    led \cup {LedgerKey(cls, identity, attrname), LedgerKey(cls, identity, "-")}

EverLoadedMarkNothing(led, cls, identity, attrname) == led

EverLoadedMark(led, cls, identity, attrname) ==
    led \cup {LedgerKey(cls, identity, attrname)}

\* a plain INSERT: the primary key (cls, identity, field) rejects a second row
EverLoadedMarkConflictRaises(led, cls, identity, attrname) ==
    LedgerKey(cls, identity, attrname) \in led

\* INSERT ... ON CONFLICT DO NOTHING: no IntegrityError for a row that is there
EverLoadedMarkConflict(led, cls, identity, attrname) == FALSE

(***************************************************************************)
(* Session.merge followed by commit on the cache store: upsert by primary  *)
(* key.  The store is a bag of rows, so that a second row for an identity  *)
(* would show even when it equals the first.                               *)
(***************************************************************************)
\* the merged row replaces the store
MergeRowAlone(db, row) == SetToBag({row})

MergeRowInsertOnly(db, row) == db (+) SetToBag({row})

MergeRow(db, row) ==
    [r \in (BagToSet(db) \ RowsOf(BagToSet(db), row.key)) \cup {row} |->
        IF r = row THEN 1 ELSE db[r]]

RECURSIVE MergeRows(_, _)
MergeRows(db, rows) ==
    IF rows = {} THEN db
    ELSE LET r == CHOOSE x \in rows : TRUE
         IN MergeRows(MergeRow(db, r), rows \ {r})

(***************************************************************************)
(* Cache objects of the long-lived cache session.  The columns of an       *)
(* object are read when it is created and never refreshed; its relation    *)
(* (bs on _A, a on _B) is unloaded until a refresh names it.  val holds    *)
(* the ids of the related objects; the empty set on a _B is a = None.      *)
(* wrapper is the object's _wrapper attribute: <<s, n>> names the n-th     *)
(* wrapper that ADBV instance s constructed for the row.                   *)
(***************************************************************************)
NoWrapper == <<0, 0>>
NoObj == [present |-> FALSE, name |-> 0, a_id |-> 0,
          loaded |-> FALSE, val |-> {}, wrapper |-> NoWrapper]
ObjFromRow(r) == [present |-> TRUE, name |-> r.name, a_id |-> r.a_id,
                  loaded |-> FALSE, val |-> {}, wrapper |-> NoWrapper]
EmptyMap == [k \in Keys |-> NoObj]

\* no identity map: every SELECT gives new objects
LoadObjsNoIdentityMap(im, rows) ==
    [k \in Keys |->
        IF RowsOf(rows, k) # {}
        THEN ObjFromRow(CHOOSE r \in rows : r.key = k)
        ELSE im[k]]

\* a SELECT through the cache session: rows whose identity the map already
\* holds give the object it holds, the others a new object
LoadObjs(im, rows) ==
    [k \in Keys |->
        IF ~im[k].present /\ RowsOf(rows, k) # {}
        THEN ObjFromRow(CHOOSE r \in rows : r.key = k)
        ELSE im[k]]

\* Session.close / a replaced session: its objects are detached
Detach(det, im) == [k \in Keys |-> IF im[k].present THEN im[k] ELSE det[k]]

(***************************************************************************)
(* ADBV._wrap and ADBV._wrap_multi, on (identity map, wrappers).           *)
(***************************************************************************)
\* every wrapper holds the first instance
NewWrapperOfFirst(wc, o) == [cls |-> wc, name |-> o.name, a_id |-> o.a_id, adbv |-> 1]

\* wrapper_class(self, cache_db_obj, private=True): self._adbv = adbv
NewWrapper(wc, o) == [cls |-> wc, name |-> o.name, a_id |-> o.a_id, adbv |-> sess]

WrapAlwaysNew(wrapper_class, k, im, ws) ==
    [imap |-> [im EXCEPT ![k].wrapper = <<sess, Len(ws[k]) + 1>>],
     wrappers |-> [ws EXCEPT ![k] = Append(@, NewWrapper(wrapper_class, im[k]))]]

Wrap(wrapper_class, k, im, ws) ==
    IF im[k].wrapper # NoWrapper
    THEN [imap |-> im, wrappers |-> ws]
    ELSE [imap |-> [im EXCEPT ![k].wrapper = <<sess, Len(ws[k]) + 1>>],
          wrappers |-> [ws EXCEPT ![k] = Append(@, NewWrapper(wrapper_class, im[k]))]]

RECURSIVE WrapMulti(_, _, _, _)
WrapMulti(wrapper_class, ks, im, ws) ==
    IF ks = {} THEN [imap |-> im, wrappers |-> ws]
    ELSE LET k == CHOOSE x \in ks : TRUE
             W == Wrap(wrapper_class, k, im, ws)
         IN WrapMulti(wrapper_class, ks \ {k}, W.imap, W.wrappers)

(***************************************************************************)
(* Results of a call.                                                      *)
(***************************************************************************)
NoRes == [kind |-> "none", ws |-> {}, vals |-> {}, err |-> "-"]
ErrRes(e) == [kind |-> "error", ws |-> {}, vals |-> {}, err |-> e]
Fallback == [kind |-> "fallback", ws |-> {}, vals |-> {}, err |-> "-"]
Plain(kind) == [kind |-> kind, ws |-> {}, vals |-> {}, err |-> "-"]
\* return None
NoneRes == Plain("None")
\* wrappers of the objects ks, with the columns seen through them
WrapRes(kind, ks, im) ==
    [kind |-> kind,
     ws |-> {<<k, im[k].wrapper>> : k \in ks},
     vals |-> {Row(k, im[k].name, im[k].a_id) : k \in ks},
     err |-> "-"]

NotLiveMsgSwapped(o) == IF o = "False" THEN "NotLive_unopened" ELSE "NotLive_closed"

NotLiveMsg(o) == IF o = "False" THEN "NotLive_closed" ELSE "NotLive_unopened"

IsLive(o) == o = "True"

(***************************************************************************)
(* Tasks.  A task is idle, inside a call (pc names the await it is         *)
(* suspended at) or done with the call's result in res.                    *)
(*   op        the entry point called                                      *)
(*   wc        wrapper_class                                               *)
(*   cls, ident, tag   what the ledger is asked about                      *)
(*   target    load / by-id: the row loaded; field: the owner's row;       *)
(*             query: the parent the statement selects the children of     *)
(*   owner     self, for the loaders of a wrapper (0 otherwise)            *)
(*   emode     mode = _min_mode(limit_mode, adbv._mode)                    *)
(*   fb        TRUE when offline_fallback is not RaiseIfMissing            *)
(*   ever      ever_loaded_exists                                          *)
(*   rows      what the origin session returned                            *)
(*   stage     1 when stage 1 answered, 2 when the call went on            *)
(*   contacted, ocall, gen, known, clean   history of the call: did it     *)
(*             reach origin; _opened, the number of origin changes, was    *)
(*             the aspect fetched from origin, did the cache hold for it   *)
(*             what it held at the last origin change, all as of the call  *)
(*   oc0       history: the origin sessions opened before the call         *)
(***************************************************************************)
NoOwner == <<<<"-", 0>>, 0>>
Idle == [pc |-> "idle", op |-> "-", wc |-> "-", cls |-> "-", ident |-> Scalar(0),
         tag |-> "-", target |-> <<"-", 0>>, owner |-> NoOwner, emode |-> NoMode,
         fb |-> FALSE, ever |-> FALSE, rows |-> {}, contacted |-> FALSE,
         ocall |-> "-", gen |-> 0, known |-> FALSE, stage |-> 0,
         clean |-> FALSE, oc0 |-> 0, res |-> NoRes]

Active == cfg.tasks
Ready(t) == task[t].pc \in {"idle", "done"}
CanCall(t) == Ready(t) /\ ops < cfg.ops

Finish(tk, r) == [tk EXCEPT !.pc = "done", !.res = r]

\* the wrappers of the ADBV instance in use: <<k, n>> is the n-th of row k
WrapperIds == UNION {{<<k, n>> : n \in 1..Len(wrappers[k])} : k \in Keys}
WrapperRec(w) == wrappers[w[1]][w[2]]
\* is the cache object behind wrapper w persistent in adbv._cache_session
Attached(w) == imap[w[1]].wrapper = <<sess, w[2]>>
\* the cache object behind wrapper w (self._cache_object)
ObjOf(w) ==
    IF Attached(w) THEN imap[w[1]]
    ELSE IF detached[w[1]].wrapper = <<sess, w[2]>> THEN detached[w[1]]
    ELSE [NoObj EXCEPT !.name = WrapperRec(w).name, !.a_id = WrapperRec(w).a_id]

CacheRows == BagToSet(cache)

\* history: the aspects a call loads (a by-id field is one of its own) and
\* the rows they are made of
BKeys == {"B"} \X BIds
FieldAspect(k) == LedgerKey(k[1], Scalar(k[2]), "a")
AspectsOf(op, cls, ident, tag, owner) ==
    {LedgerKey(cls, ident, tag)} \cup
        (IF op = "byid" THEN {FieldAspect(owner[1])} ELSE {})
\* the value of an aspect in a database: the row, the parent the owner's
\* row refers to, the children, the children the statement selects
ValueIn(db, op, target, owner) ==
    CASE op = "load" -> RowsOf(db, target)
      [] op = "byid" -> UNION {RowsOf(db, <<"A", r.a_id>>) : r \in RowsOf(db, owner[1])}
      [] op \in {"field", "one"} -> ChildRows(db, target[2])
      [] OTHER -> JoinRows(db, target[2])
OwnRow(db, op, owner) == IF op = "byid" THEN RowsOf(db, owner[1]) ELSE {}

\* the call as it leaves its entry point, stage 1 and the liveness check passed
Call(t, o, op, wc, cls, ident, tag, target, owner, lm, fb) ==
    [Idle EXCEPT !.pc = "exists", !.op = op, !.wc = wc, !.cls = cls,
                 !.ident = ident, !.tag = tag, !.target = target,
                 !.owner = owner, !.emode = MinMode(lm, mode),
                 !.fb = fb /\ MinMode(lm, mode) = OFFLINE,
                 !.ocall = o, !.gen = changes, !.stage = 2,
                 !.oc0 = originCalls,
                 !.known = LedgerKey(cls, ident, tag) \in fetched,
                 !.clean = /\ ValueIn(CacheRows, op, target, owner)
                                = ValueIn(atChange.rows, op, target, owner)
                           /\ OwnRow(CacheRows, op, owner)
                                = OwnRow(atChange.rows, op, owner)]

\* the call as stage 1 answers it
Seen(o, op, wc, cls, ident, tag, target, owner, lm, fb) ==
    [Call(0, o, op, wc, cls, ident, tag, target, owner, lm, fb) EXCEPT
        !.pc = "done", !.stage = 1]

\* history: a load under FRESHEN has run for these aspects; only those
\* cached when the origin changed are of interest
Freshen(lm, aspects) ==
    IF changes > 0 /\ IsLive(opened) /\ MinMode(lm, mode) = FRESHEN
    THEN freshened \cup
           (aspects \cap (atChange.fetched \cup
                            {FieldAspect(r.key) : r \in atChange.rows}))
    ELSE freshened

Refused(op, o, e) == [Finish(Idle, ErrRes(e)) EXCEPT !.op = op, !.ocall = o,
                                                      !.gen = changes]

Session == <<sess, mode, opened, lock, imap, detached>>
Stores == <<origin, cache, ledger>>
Loading == <<fetched, relSnap, atChange, freshened>>
History == <<Loading, life>>
Callers == <<fetched, relSnap, atChange, life>>

(***************************************************************************)
(* ADBV.__init__: a new ADBV instance on the same cache store, once the    *)
(* previous one is closed and nothing is in flight.                        *)
(***************************************************************************)
Construct(m) ==
    /\ sess < cfg.sessions
    /\ opened = "False"
    /\ \A t \in Active : Ready(t)
    /\ sess' = sess + 1
    /\ mode' = m
    /\ opened' = "None"
    /\ lock' = 0
    /\ imap' = EmptyMap
    /\ detached' = EmptyMap
    /\ originCalls' = 0
    /\ task' = [t \in DOMAIN task |-> Idle]
    /\ wrappers' = [k \in Keys |-> <<>>]
    /\ life' = [opens |-> 0, closed |-> FALSE]
    /\ UNCHANGED <<Stores, ops, changes, cfg, Loading>>

(***************************************************************************)
(* ADBV.__aenter__                                                         *)
(***************************************************************************)
OpenCall(t) ==
    /\ Ready(t)
    /\ IF opened = "False"
       THEN /\ task' = [task EXCEPT ![t] = Refused("open", opened, "NotLive_reopen")]
            /\ UNCHANGED lock
       ELSE IF opened # "None"
       THEN /\ task' = [task EXCEPT ![t] = Refused("open", opened, "AssertionError")]
            /\ UNCHANGED lock
       ELSE IF lock = 0
       THEN /\ task' = [task EXCEPT ![t] = [Idle EXCEPT !.pc = "open_fin",
                                                      !.op = "open", !.ocall = opened]]
            /\ lock' = t
       ELSE /\ task' = [task EXCEPT ![t] = [Idle EXCEPT !.pc = "open_wait",
                                                      !.op = "open", !.ocall = opened]]
            /\ UNCHANGED lock
    /\ UNCHANGED <<Stores, sess, mode, opened, imap, detached, wrappers,
                   originCalls, ops, changes, cfg, History>>

OpenAcquire(t) ==
    /\ task[t].pc = "open_wait"
    /\ lock = 0
    /\ lock' = t
    /\ task' = [task EXCEPT ![t].pc = "open_fin"]
    /\ UNCHANGED <<Stores, sess, mode, opened, imap, detached, wrappers,
                   originCalls, ops, changes, cfg, History>>

\* a raising body leaves the lock with the task
LockLeftUnlessRaised(t, raised) == IF raised THEN t ELSE 0

\* the end of async with self._lock: the lock is released, whether the body
\* returned or raised
LockLeft(t, raised) == 0

\* create_all has run, self._cache_session is a new session, _opened = True
OpenFinish(t) ==
    /\ task[t].pc = "open_fin"
    /\ opened' = "True"
    /\ lock' = LockLeft(t, FALSE)
    /\ detached' = Detach(detached, imap)
    /\ imap' = EmptyMap
    /\ task' = [task EXCEPT ![t] = Finish(task[t], Plain("ok"))]
    /\ life' = [life EXCEPT !.opens = @ + 1]
    /\ UNCHANGED <<Stores, sess, mode, wrappers, originCalls, ops, changes, cfg,
                   Loading>>

(***************************************************************************)
(* ADBV.__aexit__                                                          *)
(***************************************************************************)
CloseCall(t) ==
    /\ Ready(t)
    /\ IF opened # "True"
       THEN /\ task' = [task EXCEPT ![t] = Refused("close", opened, "AssertionError")]
            /\ UNCHANGED <<opened, life>>
       ELSE /\ opened' = "False"
            /\ life' = [life EXCEPT !.closed = TRUE]
            /\ task' = [task EXCEPT ![t] = [Idle EXCEPT !.pc = "close_fin",
                                                      !.op = "close", !.ocall = opened]]
    /\ UNCHANGED <<Stores, sess, mode, lock, imap, detached, wrappers,
                   originCalls, ops, changes, cfg, Loading>>

\* self._cache_session.__aexit__: the session is closed, its objects expunged
CloseFinish(t) ==
    /\ task[t].pc = "close_fin"
    /\ detached' = Detach(detached, imap)
    /\ imap' = EmptyMap
    /\ task' = [task EXCEPT ![t] = Finish(task[t], Plain("ok"))]
    /\ UNCHANGED <<Stores, sess, mode, opened, lock, wrappers, originCalls, ops,
                   changes, cfg, History>>

(***************************************************************************)
(* Entry points.  Each runs to its first await: the liveness check, for    *)
(* the loaders of a wrapper stage 1, and the computation of the mode.      *)
(***************************************************************************)
Frame == <<Stores, Session, originCalls, changes, cfg, Callers>>

\* ADBV._load(wrapper_class, id_, limit_mode, offline_fallback)
LoadCall(t, wc, id, lm, fb) ==
    /\ CanCall(t)
    /\ <<Underlying(wc), id>> \in Keys
    /\ ops' = ops + 1
    /\ task' = [task EXCEPT ![t] =
          IF ~IsLive(opened)
          THEN Refused("load", opened, NotLiveMsg(opened))
          ELSE Call(t, opened, "load", wc, Underlying(wc), Scalar(id), "-",
                    <<Underlying(wc), id>>, NoOwner, lm, fb)]
    /\ freshened' = Freshen(lm, {LedgerKey(Underlying(wc), Scalar(id), "-")})
    /\ UNCHANGED <<Frame, wrappers>>

\* A.bs: self._field_loader(B, 'bs', limit_mode, offline_fallback)
FieldCall(t, w, lm, fb) ==
    /\ CanCall(t)
    /\ w \in WrapperIds
    /\ WrapperRec(w).cls = "WA"
    /\ ops' = ops + 1
    /\ LET k == w[1]
           o == ObjOf(w)
           W == WrapMulti(WrapperRec(w).cls, {<<"B", b>> : b \in o.val},
                          IF Attached(w) THEN imap ELSE detached, wrappers)
       IN IF ~IsLive(opened)
          THEN /\ task' = [task EXCEPT ![t] =
                              Refused("field", opened, NotLiveMsg(opened))]
               /\ UNCHANGED <<imap, detached, wrappers>>
          ELSE IF k[1] # "A"
          THEN \* no attribute bs on the cache object
               /\ task' = [task EXCEPT ![t] =
                              Refused("field", opened, "AttributeError")]
               /\ UNCHANGED <<imap, detached, wrappers>>
          ELSE IF o.loaded
          THEN \* stage 1: wrap with self.__class__ and return
               /\ imap' = IF Attached(w) THEN W.imap ELSE imap
               /\ detached' = IF Attached(w) THEN detached ELSE W.imap
               /\ wrappers' = W.wrappers
               /\ task' = [task EXCEPT ![t] =
                     [Seen(opened, "field", "WB", "A", Tuple(<<k[2]>>), "bs",
                           k, w, lm, fb) EXCEPT
                         !.res = WrapRes("list", {<<"B", b>> : b \in o.val}, W.imap)]]
          ELSE /\ task' = [task EXCEPT ![t] =
                     Call(t, opened, "field", "WB", "A", Tuple(<<k[2]>>), "bs",
                          k, w, lm, fb)]
               /\ UNCHANGED <<imap, detached, wrappers>>
    /\ freshened' = IF w[1][1] = "A"
                    THEN Freshen(lm, {LedgerKey("A", Tuple(<<w[1][2]>>), "bs")})
                    ELSE freshened
    /\ UNCHANGED <<Stores, sess, mode, opened, lock, originCalls,
                   changes, cfg, Callers>>

\* A.b of the one-to-one schema, where _A.b is a scalar relationship in the
\* place of _A.bs: self._field_loader(B, 'b', limit_mode, offline_fallback)
OneCall(t, w, lm, fb) ==
    /\ CanCall(t)
    /\ w \in WrapperIds
    /\ WrapperRec(w).cls = "WA"
    /\ w[1][1] = "A"
    /\ ops' = ops + 1
    /\ LET k == w[1]
           o == ObjOf(w)
           ks == {<<"B", b>> : b \in o.val}
           W == WrapMulti(WrapperRec(w).cls, ks,
                          IF Attached(w) THEN imap ELSE detached, wrappers)
           seen == Seen(opened, "one", "WB", "A", Tuple(<<k[2]>>), "b",
                        k, w, lm, fb)
       IN IF ~IsLive(opened)
          THEN /\ task' = [task EXCEPT ![t] =
                              Refused("one", opened, NotLiveMsg(opened))]
               /\ UNCHANGED <<imap, detached, wrappers>>
          ELSE IF o.loaded /\ ks = {}
          THEN \* stage 1 with b = None: _wrap sets None._wrapper
               /\ task' = [task EXCEPT ![t] =
                              [seen EXCEPT !.res = ErrRes("AttributeError")]]
               /\ UNCHANGED <<imap, detached, wrappers>>
          ELSE IF o.loaded
          THEN \* stage 1: wrap with self.__class__ and return
               /\ imap' = IF Attached(w) THEN W.imap ELSE imap
               /\ detached' = IF Attached(w) THEN detached ELSE W.imap
               /\ wrappers' = W.wrappers
               /\ task' = [task EXCEPT ![t] =
                              [seen EXCEPT !.res = WrapRes("wrapper", ks, W.imap)]]
          ELSE /\ task' = [task EXCEPT ![t] =
                     Call(t, opened, "one", "WB", "A", Tuple(<<k[2]>>), "b",
                          k, w, lm, fb)]
               /\ UNCHANGED <<imap, detached, wrappers>>
    /\ freshened' = Freshen(lm, {LedgerKey("A", Tuple(<<w[1][2]>>), "b")})
    /\ UNCHANGED <<Stores, sess, mode, opened, lock, originCalls,
                   changes, cfg, Callers>>

\* B.a: self._by_id_field_loader(A, 'a', 'a_id', limit_mode, offline_fallback)
ByIdCall(t, w, lm, fb) ==
    /\ CanCall(t)
    /\ w \in WrapperIds
    /\ WrapperRec(w).cls = "WB"
    /\ ops' = ops + 1
    /\ LET k == w[1]
           o == ObjOf(w)
           ks == {<<"A", a>> : a \in o.val}
           W == WrapMulti(WrapperRec(w).cls, ks,
                          IF Attached(w) THEN imap ELSE detached, wrappers)
           seen == Seen(opened, "byid", "WA", "A", Scalar(o.a_id), "-",
                        <<"A", o.a_id>>, w, lm, fb)
       IN IF ~IsLive(opened)
          THEN /\ task' = [task EXCEPT ![t] =
                              Refused("byid", opened, NotLiveMsg(opened))]
               /\ UNCHANGED <<imap, detached, wrappers>>
          ELSE IF k[1] # "B"
          THEN \* no attribute a on the cache object
               /\ task' = [task EXCEPT ![t] =
                              Refused("byid", opened, "AttributeError")]
               /\ UNCHANGED <<imap, detached, wrappers>>
          ELSE IF o.loaded /\ ks = {}
          THEN \* stage 1 with a = None: _wrap sets None._wrapper
               /\ task' = [task EXCEPT ![t] =
                              [seen EXCEPT !.res = ErrRes("AttributeError")]]
               /\ UNCHANGED <<imap, detached, wrappers>>
          ELSE IF o.loaded
          THEN \* stage 1: wrap with self.__class__ and return
               /\ imap' = IF Attached(w) THEN W.imap ELSE imap
               /\ detached' = IF Attached(w) THEN detached ELSE W.imap
               /\ wrappers' = W.wrappers
               /\ task' = [task EXCEPT ![t] =
                              [seen EXCEPT !.res = WrapRes("wrapper", ks, W.imap)]]
          ELSE \* id_ = cache_object.a_id, then adbv._load(wrapper_class, id_, ...)
               /\ task' = [task EXCEPT ![t] =
                     Call(t, opened, "byid", "WA", "A", Scalar(o.a_id), "-",
                          <<"A", o.a_id>>, w, lm, fb)]
               /\ UNCHANGED <<imap, detached, wrappers>>
    /\ freshened' = IF w[1][1] = "B"
                    THEN Freshen(lm, AspectsOf("byid", "A", Scalar(ObjOf(w).a_id),
                                               "-", w))
                    ELSE freshened
    /\ UNCHANGED <<Stores, sess, mode, opened, lock, originCalls,
                   changes, cfg, Callers>>

\* A.also_bs: adbv._load_from_query(B, 'A.bs', self.id,
\*                select(_B, _A).join(_A.bs).where(_A.id == self.id), ...)
QueryCall(t, w, lm, fb) ==
    /\ CanCall(t)
    /\ w \in WrapperIds
    /\ WrapperRec(w).cls = "WA"
    /\ w[1][1] = "A"
    /\ ops' = ops + 1
    /\ LET k == w[1]
       IN task' = [task EXCEPT ![t] =
            IF ~IsLive(opened)
            THEN Refused("query", opened, NotLiveMsg(opened))
            ELSE Call(t, opened, "query", "WB", Underlying("WB"), Scalar(k[2]),
                      "A.bs", k, w, lm, fb)]
    /\ freshened' = Freshen(lm, {LedgerKey("B", Scalar(w[1][2]), "A.bs")})
    /\ UNCHANGED <<Frame, wrappers>>

\* wrapper.name: ADBVObject.__getattribute__, then self._cache_object.name
GetAttr(t, w) ==
    /\ Ready(t)
    /\ w \in WrapperIds
    /\ task' = [task EXCEPT ![t] =
          IF ~IsLive(opened)
          THEN Refused("getattr", opened, NotLiveMsg(opened))
          ELSE [Refused("getattr", opened, "-") EXCEPT
                   !.owner = w,
                   !.res = [kind |-> "value", ws |-> {<<w[1], <<sess, w[2]>>>>},
                            vals |-> {Row(w[1], WrapperRec(w).name,
                                          WrapperRec(w).a_id)},
                            err |-> "-"]]]
    /\ UNCHANGED <<Frame, freshened, wrappers, ops>>

(***************************************************************************)
(* The steps of a load, one per await.                                     *)
(***************************************************************************)
AspectOf(tk) == LedgerKey(tk.cls, tk.ident, tk.tag)

\* history: a load that fetched from origin returned normally
Completed(tk, r) ==
    IF tk.contacted /\ r.kind # "error" THEN fetched \cup {AspectOf(tk)} ELSE fetched

\* never loaded and the mode is OFFLINE: raise IsOfflineError unless a
\* fallback was given
OfflineMissAlwaysFallback(fb) == Fallback

OfflineMiss(fb) == IF ~fb THEN ErrRes("IsOffline") ELSE Fallback

\* if mode != Mode.FRESHEN: if ever_loaded_exists: answer from the cache
UseCacheNever(emode, ever) == FALSE

\* the test on the mode dropped: a ledger entry always answers from the cache
UseCacheWhenever(emode, ever) == ever

UseCache(emode, ever) == emode # FRESHEN /\ ever

\* stage 2: await _ever_loaded_exists(...), then the branch on the mode
Exists(t) ==
    /\ task[t].pc = "exists"
    /\ LET tk == task[t]
           ever == EverLoadedExists(ledger, tk.cls, tk.ident, tk.tag)
       IN task' = [task EXCEPT ![t] =
            IF UseCache(tk.emode, ever)
            THEN [tk EXCEPT !.ever = ever, !.pc = "cread"]
            ELSE IF tk.emode # FRESHEN /\ tk.emode = OFFLINE
            THEN IF tk.op = "byid" /\ OfflineMiss(tk.fb).kind # "error"
                 THEN \* _load returned the fallback to _by_id_field_loader
                      [tk EXCEPT !.ever = ever, !.pc = "brefresh",
                                 !.res = OfflineMiss(tk.fb)]
                 ELSE Finish([tk EXCEPT !.ever = ever], OfflineMiss(tk.fb))
            ELSE [tk EXCEPT !.ever = ever, !.pc = "origin"]]
    /\ UNCHANGED <<Frame, freshened, wrappers, ops>>

\* cache_obj = await self._cache_session.get(underlying_cls, id_)
\* return self._wrap(wrapper_class, cache_obj)
CacheGet(t) ==
    /\ task[t].pc = "cread"
    /\ task[t].op \in {"load", "byid"}
    /\ LET tk == task[t]
           im == LoadObjs(imap, RowsOf(CacheRows, tk.target))
           W == Wrap(tk.wc, tk.target, im, wrappers)
           r == WrapRes("wrapper", {tk.target}, W.imap)
       IN IF ~im[tk.target].present
          THEN \* get gave None: _wrap sets None._wrapper
               /\ task' = [task EXCEPT ![t] = Finish(tk, ErrRes("AttributeError"))]
               /\ UNCHANGED <<imap, wrappers, fetched>>
          ELSE /\ imap' = W.imap
               /\ wrappers' = W.wrappers
               /\ IF tk.op = "byid"
                  THEN /\ task' = [task EXCEPT ![t] =
                                      [tk EXCEPT !.pc = "brefresh", !.res = r]]
                       /\ UNCHANGED fetched
                  ELSE /\ task' = [task EXCEPT ![t] = Finish(tk, r)]
                       /\ fetched' = Completed(tk, r)
    /\ UNCHANGED <<Stores, sess, mode, opened, lock, detached, originCalls, ops,
                   changes, cfg, relSnap, atChange, life, freshened>>

\* _by_id_field_loader, after _load returned r:
\* await adbv._cache_session.refresh(cache_object, attribute_names=[name])
ByIdRefresh(t) ==
    /\ task[t].pc = "brefresh"
    /\ LET tk == task[t]
           k == tk.owner[1]
           pk == <<"A", imap[k].a_id>>
           im == LoadObjs(imap, RowsOf(CacheRows, pk))
       IN IF ~Attached(tk.owner)
          THEN /\ task' = [task EXCEPT ![t] = Finish(tk, ErrRes("InvalidRequestError"))]
               /\ UNCHANGED <<imap, fetched>>
          ELSE /\ imap' = [im EXCEPT ![k].loaded = TRUE,
                                     ![k].val = IF im[pk].present THEN {pk[2]} ELSE {}]
               /\ task' = [task EXCEPT ![t] = Finish(tk, tk.res)]
               /\ fetched' = Completed(tk, tk.res)
    /\ UNCHANGED <<Stores, sess, mode, opened, lock, detached, wrappers,
                   originCalls, ops, changes, cfg, relSnap, atChange, life, freshened>>

\* _field_loader, stage 2 hit and the end of stage 3:
\* await cache_session.refresh(cache_object, attribute_names=[name])
\* r = getattr(cache_object, name); return adbv._wrap_multi(wrapper_class, r)
\* A scalar relationship that is None is returned as None (stage 2: what the
\* cache holds, stage 3: what origin returned) and never wrapped.
CacheRefresh(t) ==
    /\ task[t].pc = "cread"
    /\ task[t].op \in {"field", "one"}
    /\ LET tk == task[t]
           k == tk.target
           rows == ChildRows(CacheRows, k[2])
           im == [LoadObjs(imap, rows) EXCEPT ![k].loaded = TRUE,
                                              ![k].val = {r.key[2] : r \in rows}]
           none == /\ tk.op = "one"
                   /\ IF tk.contacted THEN tk.rows = {} ELSE rows = {}
           W == WrapMulti(tk.wc, IF none THEN {} ELSE KeysOf(rows), im, wrappers)
           r == IF tk.op = "field" THEN WrapRes("list", KeysOf(rows), W.imap)
                ELSE IF none THEN NoneRes
                ELSE IF rows = {} THEN ErrRes("AttributeError")
                ELSE WrapRes("wrapper", KeysOf(rows), W.imap)
       IN IF ~Attached(tk.owner)
          THEN /\ task' = [task EXCEPT ![t] = Finish(tk, ErrRes("InvalidRequestError"))]
               /\ UNCHANGED <<imap, wrappers, fetched, relSnap>>
          ELSE /\ imap' = W.imap
               /\ wrappers' = W.wrappers
               /\ task' = [task EXCEPT ![t] = Finish(tk, r)]
               /\ fetched' = Completed(tk, r)
               /\ relSnap' = IF mode = FRESHEN
                             THEN [relSnap EXCEPT ![k[2]] = {{x.key[2] : x \in rows}}]
                             ELSE relSnap
    /\ UNCHANGED <<Stores, sess, mode, opened, lock, detached, originCalls, ops,
                   changes, cfg, atChange, life, freshened>>

\* __query_cache: cached = (await self._cache_session.scalars(statement)).all()
\* return self._wrap_multi(wrapper_class, cached)
CacheQuery(t) ==
    /\ task[t].pc = "cread"
    /\ task[t].op = "query"
    /\ LET tk == task[t]
           rows == JoinRows(CacheRows, tk.target[2])
           im == LoadObjs(imap, rows)
           W == WrapMulti(tk.wc, KeysOf(rows), im, wrappers)
           r == WrapRes("list", KeysOf(rows), W.imap)
       IN /\ imap' = W.imap
          /\ wrappers' = W.wrappers
          /\ task' = [task EXCEPT ![t] = Finish(tk, r)]
          /\ fetched' = Completed(tk, r)
    /\ UNCHANGED <<Stores, sess, mode, opened, lock, detached, originCalls, ops,
                   changes, cfg, relSnap, atChange, life, freshened>>

\* stage 3: async with adbv._origin_sm() as origin_session: ...
OriginFetch(t) ==
    /\ task[t].pc = "origin"
    /\ originCalls' = originCalls + 1
    /\ LET tk == [task[t] EXCEPT !.contacted = TRUE]
       IN task' = [task EXCEPT ![t] =
            IF tk.op \in {"load", "byid"}
            THEN \* origin_obj = await origin_session.get(underlying_cls, id_)
                 [tk EXCEPT !.rows = RowsOf(origin, tk.target), !.pc = "macq"]
            ELSE IF tk.op = "field"
            THEN \* o = get(cls, identity); refresh(o, [name]); r = getattr(o, name)
                 IF RowsOf(origin, tk.target) = {}
                 THEN Finish(tk, ErrRes("LookupFailure"))
                 ELSE [tk EXCEPT !.rows = ChildRows(origin, tk.target[2]),
                                 !.pc = "macq"]
            ELSE IF tk.op = "one"
            THEN \* the same, and: if r is not None: await adbv._merge(r)
                 IF RowsOf(origin, tk.target) = {}
                 THEN Finish(tk, ErrRes("LookupFailure"))
                 ELSE IF ChildRows(origin, tk.target[2]) = {}
                 THEN [tk EXCEPT !.pc = IF tk.ever THEN "cread" ELSE "mark"]
                 ELSE [tk EXCEPT !.rows = ChildRows(origin, tk.target[2]),
                                 !.pc = "macq"]
            ELSE \* origin_objs = (await origin_session.scalars(statement)).all()
                 [tk EXCEPT !.rows = JoinRows(origin, tk.target[2]), !.pc = "macq"]]
    /\ UNCHANGED <<Stores, Session, wrappers, ops, changes, cfg, History>>

\* _merge_single / _merge_multi: async with self._lock
MergeAcquire(t) ==
    /\ task[t].pc = "macq"
    /\ lock = 0
    /\ lock' = t
    /\ task' = [task EXCEPT ![t].pc = "mcommit"]
    /\ UNCHANGED <<Stores, sess, mode, opened, imap, detached, wrappers,
                   originCalls, ops, changes, cfg, History>>

\* merge(None) never raises
MergeRaisesNever(op, rows) == FALSE

\* cache_session_wr.merge(None), None being what get gave for a missing row,
\* raises UnmappedInstanceError
MergeRaises(op, rows) == op \in {"load", "byid"} /\ rows = {}

\* merge every row, commit, leave the lock; merge(None) raises
MergeCommit(t) ==
    /\ task[t].pc = "mcommit"
    /\ lock' = LockLeft(t, MergeRaises(task[t].op, task[t].rows))
    /\ LET tk == task[t]
       IN IF MergeRaises(tk.op, tk.rows)
          THEN /\ task' = [task EXCEPT ![t] = Finish(tk, ErrRes("LookupFailure"))]
               /\ UNCHANGED <<cache, relSnap>>
          ELSE /\ cache' = MergeRows(cache, tk.rows)
               /\ task' = [task EXCEPT ![t].pc = IF tk.ever THEN "cread" ELSE "mark"]
               /\ relSnap' = [a \in AIds |->
                     IF KeysOf(ChildRows(BagToSet(MergeRows(cache, tk.rows)), a))
                           = KeysOf(ChildRows(CacheRows, a))
                     THEN relSnap[a] ELSE {}]
    /\ UNCHANGED <<origin, ledger, sess, mode, opened, imap, detached, wrappers,
                   originCalls, ops, changes, cfg, fetched, atChange, life, freshened>>

\* if not ever_loaded_exists: _ever_loaded_mark(cache_session2, ...); commit
Mark(t) ==
    /\ task[t].pc = "mark"
    /\ IF EverLoadedMarkConflict(ledger, task[t].cls, task[t].ident, task[t].tag)
       THEN /\ task' = [task EXCEPT ![t] = Finish(task[t], ErrRes("IntegrityError"))]
            /\ UNCHANGED ledger
       ELSE /\ ledger' = EverLoadedMark(ledger, task[t].cls, task[t].ident,
                                        task[t].tag)
            /\ task' = [task EXCEPT ![t].pc = "cread"]
    /\ UNCHANGED <<origin, cache, Session, wrappers, originCalls, ops, changes,
                   cfg, History>>

(***************************************************************************)
(* The origin database changes under the cache.                            *)
(***************************************************************************)
\* history: what the cache held when the origin changed
Changed ==
    /\ atChange' = [rows |-> CacheRows, fetched |-> fetched, sess |-> sess]
    /\ freshened' = {}
    /\ UNCHANGED <<fetched, relSnap, life>>

\* in a sequential run the origin is written between two calls
CanChange == changes < cfg.changes /\ (cfg.tasks = SeqTasks => \A t \in Active : Ready(t))

OriginRename(k) ==
    /\ CanChange
    /\ \E r \in RowsOf(origin, k) :
          origin' = (origin \ {r}) \cup {[r EXCEPT !.name = r.name + 1]}
    /\ changes' = changes + 1
    /\ Changed
    /\ UNCHANGED <<cache, ledger, Session, wrappers, task, originCalls, ops, cfg>>

OriginReparent(b, a) ==
    /\ CanChange
    /\ RowsOf(origin, <<"A", a>>) # {}
    /\ \E r \in RowsOf(origin, <<"B", b>>) :
          /\ r.a_id # a
          /\ origin' = (origin \ {r}) \cup {[r EXCEPT !.a_id = a]}
    /\ changes' = changes + 1
    /\ Changed
    /\ UNCHANGED <<cache, ledger, Session, wrappers, task, originCalls, ops, cfg>>

(***************************************************************************)
(* Specifications.  Origin starts as the fixture of the tests: two         *)
(* parents, one child of the first, one child id not in use.               *)
(***************************************************************************)
Renamed == {<<"A", 1>>, <<"B", 1>>}
Origin0 == {Row(<<"A", 1>>, 0, 0), Row(<<"A", 2>>, 0, 0), Row(<<"B", 1>>, 0, 1)}

InitOn(c, rows) ==
    /\ cfg = c
    /\ origin = rows
    /\ cache = EmptyBag
    /\ ledger = {}
    /\ sess = 1
    /\ mode = FRESHEN
    /\ opened = "None"
    /\ lock = 0
    /\ imap = EmptyMap
    /\ detached = EmptyMap
    /\ wrappers = [k \in Keys |-> <<>>]
    /\ task = [t \in c.tasks |-> Idle]
    /\ originCalls = 0
    /\ ops = 0
    /\ changes = 0
    /\ fetched = {}
    /\ relSnap = [a \in AIds |-> {}]
    /\ atChange = [rows |-> {}, fetched |-> {}, sess |-> 0]
    /\ life = [opens |-> 0, closed |-> FALSE]
    /\ freshened = {}

InitWith(c) == InitOn(c, Origin0)

Init == InitWith([tasks |-> SeqTasks, sessions |-> MaxSessions, ops |-> MaxOps,
                  changes |-> 0])
InitChange == InitWith([tasks |-> SeqTasks, sessions |-> MaxSessions,
                        ops |-> MaxOps, changes |-> MaxChanges])
InitConc == InitWith([tasks |-> ConcTasks, sessions |-> 1,
                      ops |-> MaxConcOps, changes |-> 0])

Lifecycle ==
    \/ \E t \in Active : OpenCall(t)
    \/ \E t \in Active : OpenFinish(t)
    \/ \E t \in Active : CloseCall(t)
    \/ \E t \in Active : CloseFinish(t)

\* the arguments of a load: a fallback is only looked at under OFFLINE
Args == {x \in Limits \X BOOLEAN : x[2] => MinMode(x[1], mode) = OFFLINE}

Loads ==
    \/ \E t \in Active, wc \in WrapperClasses, id \in AIds \cup BIds, x \in Args :
          LoadCall(t, wc, id, x[1], x[2])
    \/ \E t \in Active, w \in WrapperIds, x \in Args : FieldCall(t, w, x[1], x[2])
    \/ \E t \in Active, w \in WrapperIds, x \in Args : ByIdCall(t, w, x[1], x[2])
    \/ \E t \in Active, w \in WrapperIds, x \in Args : QueryCall(t, w, x[1], x[2])

Reads == \E t \in Active, w \in WrapperIds : GetAttr(t, w)

Steps ==
    \/ \E t \in Active : Exists(t)
    \/ \E t \in Active : CacheGet(t)
    \/ \E t \in Active : ByIdRefresh(t)
    \/ \E t \in Active : CacheRefresh(t)
    \/ \E t \in Active : CacheQuery(t)
    \/ \E t \in Active : OriginFetch(t)
    \/ \E t \in Active : MergeAcquire(t)
    \/ \E t \in Active : MergeCommit(t)
    \/ \E t \in Active : Mark(t)

OriginChange ==
    \/ \E k \in Renamed : OriginRename(k)
    \/ \E b \in BIds, a \in AIds : OriginReparent(b, a)

\* one ADBV instance used by one task: nothing else holds the lock at open
NextSeq == Lifecycle \/ Loads \/ Reads \/ Steps

\* one ADBV instance used by concurrent tasks
NextOne == NextSeq \/ \E t \in Active : OpenAcquire(t)

\* ADBV instances one after the other; the origin is left alone
Next == NextSeq \/ \E m \in Modes : Construct(m)

\* the origin changes under the cache, between the loads of ADBV instances
\* one after the other
NextChange ==
    \/ Lifecycle \/ Loads \/ Steps
    \/ \E m \in Modes : Construct(m)
    \/ OriginChange

\* ADBV instances one after the other on the one-to-one schema
StepsOneToOne ==
    \/ \E t \in Active : Exists(t)
    \/ \E t \in Active : CacheGet(t)
    \/ \E t \in Active : CacheRefresh(t)
    \/ \E t \in Active : OriginFetch(t)
    \/ \E t \in Active : MergeAcquire(t)
    \/ \E t \in Active : MergeCommit(t)
    \/ \E t \in Active : Mark(t)

NextOneToOne ==
    \/ Lifecycle
    \/ \E t \in Active, wc \in WrapperClasses, id \in AIds \cup BIds, x \in Args :
          LoadCall(t, wc, id, x[1], x[2])
    \/ \E t \in Active, w \in WrapperIds, x \in Args : OneCall(t, w, x[1], x[2])
    \/ StepsOneToOne
    \/ \E m \in Modes : Construct(m)

(***************************************************************************)
(* test_concurrent: in one open instance, gather runs count_bs(a_id) for    *)
(* distinct parents, each a = await adbv.A(a_id) and then await a.bs.       *)
(* Every parent has a child at origin.  The event loop runs every task      *)
(* that is ready, hence the fairness.                                       *)
(***************************************************************************)
OriginGather == Origin0 \cup {Row(<<"B", 2>>, 0, 2)}

InitGather ==
    InitOn([tasks |-> ConcTasks, sessions |-> 1,
            ops |-> 2 * Cardinality(ConcTasks), changes |-> 0], OriginGather)

\* a = await adbv.A(a_id): task t counts the children of parent t
CountLoad(t) ==
    /\ task[t].op \in {"-", "open"}
    /\ opened = "True"
    /\ LoadCall(t, "WA", t, NoMode, FALSE)

\* await a.bs, a the wrapper the load returned
CountField(t) ==
    /\ task[t].op = "load"
    /\ task[t].res.kind = "wrapper"
    /\ \E w \in WrapperIds :
          /\ <<w[1], <<sess, w[2]>>>> \in task[t].res.ws
          /\ FieldCall(t, w, NoMode, FALSE)

NextGather ==
    \/ \E t \in Active : OpenCall(t) /\ opened = "None" /\ lock = 0
    \/ \E t \in Active : OpenFinish(t)
    \/ \E t \in Active : CountLoad(t)
    \/ \E t \in Active : CountField(t)
    \/ StepsOneToOne

(***************************************************************************)
(* Concurrent tasks of one ADBV instance that load rows by identity and    *)
(* follow B.a, the by-id field, with and without a fallback.               *)
(***************************************************************************)
InitById == InitWith([tasks |-> ConcTasks, sessions |-> 1, ops |-> MaxOps,
                      changes |-> 0])

StepsById ==
    \/ \E t \in Active : Exists(t)
    \/ \E t \in Active : CacheGet(t)
    \/ \E t \in Active : ByIdRefresh(t)
    \/ \E t \in Active : OriginFetch(t)
    \/ \E t \in Active : MergeAcquire(t)
    \/ \E t \in Active : MergeCommit(t)
    \/ \E t \in Active : Mark(t)

NextById ==
    \/ \E t \in Active : OpenCall(t) /\ opened = "None" /\ lock = 0
    \/ \E t \in Active : OpenFinish(t)
    \/ \E t \in Active, wc \in WrapperClasses :
          opened = "True" /\ LoadCall(t, wc, 1, NoMode, FALSE)
    \/ \E t \in Active, w \in WrapperIds, x \in Args : ByIdCall(t, w, x[1], x[2])
    \/ StepsById

(***************************************************************************)
(* Concurrent tasks of one ADBV instance in mode FRESHEN that load parents *)
(* by identity while the name of a parent changes at origin.               *)
(***************************************************************************)
InitRace == InitWith([tasks |-> ConcTasks, sessions |-> 1, ops |-> MaxConcOps,
                      changes |-> MaxChanges])

StepsLoad ==
    \/ \E t \in Active : Exists(t)
    \/ \E t \in Active : CacheGet(t)
    \/ \E t \in Active : OriginFetch(t)
    \/ \E t \in Active : MergeAcquire(t)
    \/ \E t \in Active : MergeCommit(t)
    \/ \E t \in Active : Mark(t)

NextRace ==
    \/ \E t \in Active : OpenCall(t) /\ opened = "None" /\ lock = 0
    \/ \E t \in Active : OpenFinish(t)
    \/ \E t \in Active, id \in AIds :
          opened = "True" /\ LoadCall(t, "WA", id, NoMode, FALSE)
    \/ \E id \in AIds : OriginRename(<<"A", id>>)
    \/ StepsLoad

Spec == Init /\ [][Next]_vars
SpecRace == InitRace /\ [][NextRace]_vars
SpecById == InitById /\ [][NextById]_vars
SpecGather == InitGather /\ [][NextGather]_vars /\ WF_vars(NextGather)
SpecOneToOne == Init /\ [][NextOneToOne]_vars
SpecChange == InitChange /\ [][NextChange]_vars
SpecConc == InitConc /\ [][NextOne]_vars

\* the awaits of task t return and the event loop runs t again
Resume(t) ==
    \/ OpenAcquire(t) \/ OpenFinish(t) \/ CloseFinish(t)
    \/ Exists(t) \/ CacheGet(t) \/ ByIdRefresh(t) \/ CacheRefresh(t)
    \/ CacheQuery(t) \/ OriginFetch(t) \/ MergeAcquire(t) \/ MergeCommit(t)
    \/ Mark(t)

SpecConcFair == SpecConc /\ \A t \in ConcTasks : WF_vars(Resume(t))

(***************************************************************************)
(* Properties.                                                             *)
(***************************************************************************)
LoadOps == {"load", "byid", "field", "one", "query"}
\* task t has returned from a load that passed the liveness check
Loaded(t) == /\ task[t].pc = "done"
             /\ task[t].op \in LoadOps
             /\ task[t].stage \in {1, 2}
Returned(t) == Loaded(t) /\ task[t].res.kind \in {"wrapper", "list"}

\* C1: within one ADBV instance every row has at most one wrapper, whatever
\* loads returned it and in whatever order: no second wrapper is ever
\* constructed for a row, and every result hands out the first one.
C1_IdentityStable ==
    /\ \A k \in Keys : Len(wrappers[k]) <= 1
    /\ \A t \in Active :
          task[t].pc = "done" => \A x \in task[t].res.ws : x[2] = <<sess, 1>>

\* a custom query returned children that the field loader of the same
\* parent had wrapped before
C1_Witness ==
    \E t \in Active :
        /\ Returned(t)
        /\ task[t].op = "query"
        /\ task[t].res.ws # {}
        /\ imap[task[t].target].loaded
        /\ imap[task[t].target].val # {}

\* C2: while the ADBV instance in use has mode OFFLINE, no load of it has
\* reached or is about to reach the origin, whatever limit_mode the calls
\* were given.
C2_OfflineNeverContactsOrigin ==
    mode = OFFLINE =>
        /\ originCalls = 0
        /\ \A t \in Active :
              /\ ~task[t].contacted
              /\ task[t].pc \notin {"origin", "macq", "mcommit", "mark"}

\* an OFFLINE instance has served a load from the cache
C2_Witness ==
    /\ mode = OFFLINE
    /\ \E t \in Active : Returned(t) /\ task[t].stage = 2

\* C3: a load whose effective mode is OFFLINE, that found no ledger entry
\* for its aspect and was given no fallback ends in IsOfflineError; so for
\* _load, _load_from_query, _field_loader and _by_id_field_loader.
C3_OfflineMissRaises ==
    \A t \in Active :
        ( /\ Loaded(t)
          /\ task[t].stage = 2
          /\ task[t].emode = OFFLINE
          /\ ~task[t].fb
          /\ AspectOf(task[t]) \notin ledger )
        => task[t].res = ErrRes("IsOffline")

\* the field loader of a wrapper raised IsOfflineError
C3_Witness ==
    \E t \in Active :
        /\ Loaded(t)
        /\ task[t].op = "field"
        /\ task[t].emode = OFFLINE
        /\ task[t].res = ErrRes("IsOffline")

\* C4: a load whose effective mode is OFFLINE, with no ledger entry for its
\* aspect and a fallback given, returns the fallback: every shape, every
\* call, the repeated call on the same wrapper included.
C4_OfflineMissFallback ==
    \A t \in Active :
        ( /\ Loaded(t)
          /\ task[t].emode = OFFLINE
          /\ task[t].fb
          /\ AspectOf(task[t]) \notin ledger )
        => task[t].res = Fallback

\* C5: once an instance of mode FRESHEN has loaded the children of a parent,
\* an OFFLINE instance on the same cache store that loads them gets the same
\* set of child identities, and has not contacted the origin.
C5_OfflineReproducesChildren ==
    \A t \in Active :
        ( /\ mode = OFFLINE
          /\ Loaded(t)
          /\ task[t].op = "field"
          /\ relSnap[task[t].target[2]] # {} )
        => /\ task[t].res.kind = "list"
           /\ {k[2] : k \in KeysOf(task[t].res.vals)} \in relSnap[task[t].target[2]]
           /\ originCalls = 0

\* an OFFLINE instance returned the child that a FRESHEN instance had loaded
C5_Witness ==
    \E t \in Active :
        /\ mode = OFFLINE
        /\ sess > 1
        /\ Returned(t)
        /\ task[t].op = "field"
        /\ task[t].stage = 2
        /\ task[t].res.vals # {}
        /\ relSnap[task[t].target[2]] # {}

\* C6: a load under effective mode PREFER_CACHE of an aspect that an earlier
\* load, of this instance or an earlier one, fetched from origin and completed
\* never contacts the origin.
C6_PreferCacheNoRefetch ==
    \A t \in Active :
        (task[t].known /\ task[t].emode = PREFER_CACHE)
        => ~task[t].contacted /\ task[t].pc \notin {"origin", "macq", "mcommit", "mark"}

\* a later instance served, under PREFER_CACHE, an aspect fetched before
C6_Witness ==
    \E t \in Active :
        /\ sess > 1
        /\ Returned(t)
        /\ task[t].stage = 2
        /\ task[t].known
        /\ task[t].emode = PREFER_CACHE

\* the call of task t began after the last change of the origin, and its
\* aspect was cached when the origin changed (for a by-id field: the owner's
\* row and the parent it referred to)
OldValue(tk) == ValueIn(atChange.rows, tk.op, tk.target, tk.owner)
NewValue(tk) == ValueIn(origin, tk.op, tk.target, tk.owner)
OldAspects(tk) ==
    IF tk.op = "byid"
    THEN {FieldAspect(tk.owner[1])} \cup
         {LedgerKey("A", Scalar(r.key[2]), "-") : r \in OldValue(tk)}
    ELSE {AspectOf(tk)}
CachedBefore(tk) ==
    /\ changes > 0
    /\ tk.gen = changes
    /\ IF tk.op = "byid"
       THEN /\ OldValue(tk) # {}
            /\ \A r \in OldValue(tk) :
                  LedgerKey("A", Scalar(r.key[2]), "-") \in atChange.fetched
       ELSE AspectOf(tk) \in atChange.fetched

\* C7: after the origin changed under a cached aspect, a load of the aspect
\* under effective mode FRESHEN that began after the change returns what the
\* origin holds: the row, the parent the owner's row refers to, the children.
C7_FreshenReturnsOrigin ==
    \A t \in Active :
        ( /\ Returned(t)
          /\ task[t].emode = FRESHEN
          /\ CachedBefore(task[t])
          /\ task[t].op \in {"load", "byid"} => NewValue(task[t]) # {} )
        => task[t].res.vals = NewValue(task[t])

C9_OneRowPerIdentity ==
    \A r1 \in CacheRows :
        /\ CopiesIn(r1, cache) = 1
        /\ \A r2 \in CacheRows : r1.key = r2.key => r1 = r2

\* two concurrent loads have each fetched and merged the same row
C9_Witness ==
    \E t1 \in Active, t2 \in Active :
        /\ t1 # t2
        /\ Returned(t1) /\ Returned(t2)
        /\ task[t1].contacted /\ task[t2].contacted
        /\ task[t1].rows # {}
        /\ task[t1].rows \cap task[t2].rows # {}
        /\ task[t1].rows \subseteq CacheRows

\* C10: a load by identity, a load by query, a field load or an attribute
\* access made while _opened is None or False ends in NotLiveError, the
\* message saying unopened for None and closed for False.
C10_NotLive ==
    \A t \in Active :
        ( /\ task[t].pc = "done"
          /\ task[t].op \in LoadOps \cup {"getattr"}
          /\ task[t].ocall # "True" )
        => task[t].res = ErrRes(IF task[t].ocall = "None" THEN "NotLive_unopened"
                                ELSE "NotLive_closed")

\* an attribute of a wrapper was read after its ADBV instance was closed
C10_Witness ==
    \E t \in Active :
        /\ task[t].pc = "done"
        /\ task[t].op = "getattr"
        /\ task[t].ocall = "False"
        /\ task[t].res = ErrRes("NotLive_closed")

\* C11: closing is terminal.  Once _opened is False it stays False, whatever
\* open and close calls interleave, an open begun before the close included;
\* and an open called on a closed instance ends in NotLiveError.
C11_ClosedIsTerminal ==
    [][ /\ opened = "False" => opened' = "False"
        /\ \A t \in Active :
              ( /\ task'[t].pc = "done"
                /\ task'[t].op = "open"
                /\ task'[t].ocall = "False" )
              => task'[t].res = ErrRes("NotLive_reopen") ]_vars

\* C12: one ADBV instance establishes its long-lived cache session at most
\* once: at most one open call succeeds, also with two opens in flight.
C12_OpenedAtMostOnce == life.opens <= 1

\* C13: once __aexit__ has begun on an instance, every attribute access on a
\* wrapper of it ends in NotLiveError and gives no cached value.
C13_NoReadAfterClose ==
    [][ \A t \in Active :
          ( /\ life.closed
            /\ task'[t] # task[t]
            /\ task'[t].op = "getattr" )
          => task'[t].res = ErrRes("NotLive_closed") ]_vars

\* the keys of the rows a materialized field of wrapper w refers to
Materialized(w) ==
    {<<IF w[1][1] = "A" THEN "B" ELSE "A", x>> : x \in ObjOf(w).val}

\* C14: a field or by-id field call on a wrapper whose cache object has the
\* field materialized returns, in the step of the call itself, the wrappers
\* of the materialized value: no ledger lookup is awaited, the lock and the
\* stores are untouched and the origin is not contacted, whatever the mode.
C14_MaterializedAnswersAtOnce ==
    [][ \A t \in Active : \A w \in WrapperIds :
          ( /\ ops' = ops + 1
            /\ task'[t] # task[t]
            /\ task'[t].op \in {"field", "byid"}
            /\ task'[t].owner = w
            /\ IsLive(opened)
            /\ ObjOf(w).loaded )
          => /\ task'[t].pc = "done"
             /\ task'[t].res.kind \in {"wrapper", "list"}
             /\ {x[1] : x \in task'[t].res.ws} = Materialized(w)
             /\ ~task'[t].contacted
             /\ UNCHANGED <<Stores, lock, originCalls>> ]_vars

\* C14 without the value returned: the call ends in its own step and leaves
\* the ledger, the lock and the origin alone
C14_NoLookupNoLockNoOrigin ==
    [][ \A t \in Active : \A w \in WrapperIds :
          ( /\ ops' = ops + 1
            /\ task'[t] # task[t]
            /\ task'[t].op \in {"field", "byid"}
            /\ task'[t].owner = w
            /\ IsLive(opened)
            /\ ObjOf(w).loaded )
          => /\ task'[t].pc = "done"
             /\ ~task'[t].contacted
             /\ UNCHANGED <<Stores, lock, originCalls>> ]_vars

\* C15: sequential calls.  A load by identity, and a load of a field not yet
\* materialized on its wrapper, whose effective mode is FRESHEN opens exactly
\* one origin session, whether or not the ledger already held the aspect.
C15_FreshenOneRoundTrip ==
    \A t \in Active :
        ( /\ Loaded(t)
          /\ task[t].stage = 2
          /\ task[t].emode = FRESHEN )
        => /\ task[t].contacted
           /\ originCalls = task[t].oc0 + 1

\* a second FRESHEN instance on a cache and a ledger that hold both aspects
\* has loaded A(1) and then its children: two origin sessions
C15_Witness ==
    /\ sess = 2
    /\ mode = FRESHEN
    /\ originCalls = 2
    /\ \E t \in Active :
          /\ Returned(t)
          /\ task[t].op = "field"
          /\ task[t].target = <<"A", 1>>
          /\ task[t].stage = 2
          /\ task[t].emode = FRESHEN
          /\ task[t].ever
          /\ task[t].oc0 = 1
          /\ LedgerKey("A", Scalar(1), "-") \in ledger
          /\ {x[1] : x \in task[t].res.ws} = KeysOf(ChildRows(origin, 1))

\* the effective mode as the specification words it, for an override lm (or
\* none) and a session mode m: m without an override, otherwise the one of
\* the two that is not above the other
Effective(lm, m, e) ==
    IF lm = NoMode THEN e = m
    ELSE e \in {lm, m} /\ e <= lm /\ e <= m

\* C16: _min_mode(override, session mode) is the session mode without an
\* override and otherwise the smaller of the two in the order
\* OFFLINE < PREFER_CACHE < FRESHEN; the mode a call computes is a mode
\* never above the session mode (nor above the override), and the step that
\* computes it leaves the stores, the session and the wrappers as they were.
C16_EffectiveMode ==
    [][ /\ \A lm \in Limits : \A m \in Modes :
              /\ Effective(lm, m, MinMode(lm, m))
              /\ MinMode(lm, m) \in Modes
              /\ MinMode(lm, m) <= m
              /\ lm # NoMode => MinMode(lm, m) <= lm
        /\ \A t \in Active :
              ( /\ ops' = ops + 1
                /\ task'[t] # task[t]
                /\ task'[t].stage = 2 )
              => /\ \E lm \in Limits : Effective(lm, mode, task'[t].emode)
                 /\ task'[t].emode \in Modes
                 /\ task'[t].emode <= mode
                 /\ UNCHANGED <<Stores, Session, wrappers, originCalls>> ]_vars

\* a call whose override lowered the mode of the session by one has returned
C16_Witness ==
    \E t \in Active :
        /\ Loaded(t)
        /\ task[t].stage = 2
        /\ \/ mode = FRESHEN /\ task[t].emode = PREFER_CACHE
           \/ mode = PREFER_CACHE /\ task[t].emode = OFFLINE

\* C17: when origin was asked for a relation and it was empty (None for the
\* scalar relationship, no row for the collection), the ledger holds the
\* aspect from then on, and every later load of it whose effective mode is
\* OFFLINE or PREFER_CACHE returns None / the empty list without going to
\* origin.
C17_EmptyIsRemembered ==
    \A t \in Active :
        ( /\ Loaded(t)
          /\ task[t].op \in {"one", "field"}
          /\ ChildRows(origin, task[t].target[2]) = {} )
        => /\ ( task[t].contacted /\ task[t].res.kind # "error" )
                 => AspectOf(task[t]) \in ledger
           /\ ( task[t].known /\ task[t].emode \in {OFFLINE, PREFER_CACHE} )
                 => /\ ~task[t].contacted
                    /\ task[t].res =
                          IF task[t].op = "one" THEN NoneRes ELSE Plain("list")

\* C18: concurrent tasks.  While the instance is open, having been opened
\* once, no row has a second wrapper and every result hands out the one
\* wrapper of its row, however the loads that wrap it interleave.
C18_ConcurrentWrapsAgree ==
    ( life.opens <= 1 /\ ~life.closed )
    => /\ \A k \in Keys : Len(wrappers[k]) <= 1
       /\ \A t \in Active :
             task[t].pc = "done" => \A x \in task[t].res.ws : x[2] = <<sess, 1>>

\* two loads of one row, both called before either reached origin, have
\* returned the same wrapper
C18_Witness ==
    /\ life.opens = 1
    /\ ~life.closed
    /\ \E k \in Keys :
          /\ Len(wrappers[k]) = 1
          /\ \A t \in ConcTasks :
                /\ Returned(t)
                /\ task[t].target = k
                /\ task[t].contacted
                /\ task[t].oc0 = 0
                /\ task[t].res.ws = {<<k, <<sess, 1>>>>}

\* task t has returned from the load of the children of parent t with the
\* wrappers of exactly the children the parent has at origin
Counted(t) ==
    /\ Returned(t)
    /\ task[t].op = "field"
    /\ task[t].target = <<"A", t>>
    /\ {x[1] : x \in task[t].res.ws} = KeysOf(ChildRows(origin, t))

\* C19: concurrent tasks of one FRESHEN instance, each loading its own
\* parent and then the parent's children: whatever the interleaving of the
\* origin fetches, merges, ledger marks and cache reads, every task ends
\* having returned exactly the children its parent has at origin.
C19_GatherCompletes == <>[](\A t \in ConcTasks : Counted(t))

\* both tasks have counted, their loads having overlapped
C19_Witness ==
    /\ mode = FRESHEN
    /\ \A t \in ConcTasks : Counted(t) /\ task[t].res.ws # {}
    /\ \E t \in ConcTasks : task[t].oc0 < originCalls - 1

\* C20: a wrapper belongs to one instance.  Every wrapper a call hands out
\* was constructed by the instance the call was made on and holds it as
\* _adbv, so the wrapper a second instance returns for a row is never the
\* one an earlier instance returned; and as long as the instance is in use
\* a wrapper stays as it was constructed, _adbv included.
C20_WrapperOfOneSession ==
    [][ /\ \A w \in WrapperIds' : WrapperRec(w)'.adbv = sess'
        /\ \A k \in Keys :
              imap'[k].wrapper # NoWrapper => imap'[k].wrapper[1] = sess'
        /\ \A t \in Active :
              task'[t].pc = "done"
              => \A x \in task'[t].res.ws :
                    /\ x[2][1] = sess'
                    /\ <<x[1], x[2][2]>> \in WrapperIds'
        /\ sess' = sess
              => \A w \in WrapperIds :
                    w \in WrapperIds' /\ WrapperRec(w)' = WrapperRec(w) ]_vars

\* a second instance that did not go to origin has returned, for a row an
\* earlier instance had fetched, a wrapper of its own
C20_Witness ==
    /\ sess = 2
    /\ originCalls = 0
    /\ \E t \in Active :
          /\ Returned(t)
          /\ task[t].op = "load"
          /\ task[t].known
          /\ task[t].res.ws = {<<task[t].target, <<2, 1>>>>}
          /\ WrapperRec(<<task[t].target, 1>>).adbv = 2

\* C21: sequential calls, no fallback given.  A load by identity of a row
\* origin does not have goes to origin when its effective mode is FRESHEN
\* or PREFER_CACHE (the ledger has no entry for it) and fails there with the
\* lookup error; under OFFLINE it fails with IsOffline without going to
\* origin.  Either way the cache store holds no row and the ledger no entry
\* for the identity.
C21_MissingAtOrigin ==
    \A t \in Active :
        ( /\ Loaded(t)
          /\ task[t].op = "load"
          /\ ~task[t].fb
          /\ RowsOf(origin, task[t].target) = {} )
        => /\ RowsOf(CacheRows, task[t].target) = {}
           /\ AspectOf(task[t]) \notin ledger
           /\ ~task[t].ever
           /\ IF task[t].emode = OFFLINE
              THEN ~task[t].contacted /\ task[t].res = ErrRes("IsOffline")
              ELSE task[t].contacted /\ task[t].res = ErrRes("LookupFailure")

\* a PREFER_CACHE load of a row origin does not have has failed at origin
C21_Witness ==
    \E t \in Active :
        /\ Loaded(t)
        /\ task[t].op = "load"
        /\ RowsOf(origin, task[t].target) = {}
        /\ task[t].emode = PREFER_CACHE
        /\ task[t].contacted
        /\ task[t].res = ErrRes("LookupFailure")

\* C22: concurrent tasks.  An entry enters the ledger only in the mark of a
\* load of that aspect which has fetched from origin and whose merge is
\* committed: the rows it fetched are in the cache store.  And the entry of
\* an identity, (T, id, '-'), is there only when the cache store holds the
\* row (T, id).
C22_LedgerNoFalsePositive ==
    [][ /\ \A e \in ledger' \ ledger :
              \E t \in Active :
                 /\ task[t].pc = "mark"
                 /\ task'[t].pc = "cread"
                 /\ AspectOf(task[t]) = e
                 /\ task[t].contacted
                 /\ KeysOf(task[t].rows) \subseteq KeysOf(CacheRows)
        /\ \A e \in ledger' :
              e[3] = "-"
              => \E k \in Keys :
                    /\ e = LedgerKey(k[1], Scalar(k[2]), "-")
                    /\ RowsOf(BagToSet(cache'), k) # {} ]_vars

\* both tasks are past their marks, of an identity and of a relation
C22_Witness ==
    /\ \A t \in ConcTasks :
          /\ task[t].pc \in {"cread", "done"}
          /\ task[t].contacted
          /\ ~task[t].ever
          /\ AspectOf(task[t]) \in ledger
    /\ \E e \in ledger : e[3] = "-"
    /\ \E e \in ledger : e[3] # "-"

\* C23: concurrent tasks.  No step takes an entry out of the ledger, and a
\* mark adds its entry and goes on to the cache read, leaving the ledger as
\* it was, without an error, when the entry is already there.
C23_LedgerGrowOnly ==
    [][ /\ ledger \subseteq ledger'
        /\ \A t \in Active :
              ( task[t].pc = "mark" /\ task'[t] # task[t] )
              => /\ task'[t].pc = "cread"
                 /\ ledger' = ledger \cup {AspectOf(task[t])}
                 /\ AspectOf(task[t]) \in ledger => ledger' = ledger ]_vars

\* two loads of one aspect, neither finding an entry, have both marked it
C23_Witness ==
    /\ opened = "True"
    /\ \E t \in ConcTasks : \E u \in ConcTasks \ {t} :
          /\ AspectOf(task[t]) = AspectOf(task[u])
          /\ AspectOf(task[t]) \in ledger
          /\ \A x \in {t, u} :
                /\ task[x].pc \in {"cread", "done"}
                /\ task[x].op \in LoadOps
                /\ task[x].contacted
                /\ ~task[x].ever

\* C24: concurrent tasks.  A load marks the ledger while it holds the lock
\* it merged under, and between the commit of its merge and its mark no
\* other task commits a merge or marks.
C24_MergeAndMarkGuarded ==
    [][ \A t \in Active :
          /\ ( task[t].pc = "mark" /\ task'[t] # task[t] ) => lock = t
          /\ ( task[t].pc = "mark" /\ task'[t] = task[t] )
                => \A u \in Active \ {t} :
                      task[u].pc \in {"mcommit", "mark"} => task'[u] = task[u] ]_vars

\* the second half alone: nothing of another task between merge and mark
C24_NothingBetweenMergeAndMark ==
    [][ \A t \in Active :
          ( task[t].pc = "mark" /\ task'[t] = task[t] )
          => \A u \in Active \ {t} :
                task[u].pc \in {"mcommit", "mark"} => task'[u] = task[u] ]_vars

\* task t is inside a write transaction on the cache store that spans
\* awaits: the merge of _merge_single / _merge_multi, the create_all of open
Writing(t) == task[t].pc \in {"mcommit", "open_fin"}

\* C25: concurrent tasks.  At most one write transaction on the cache store
\* is in progress at any moment: no two tasks are inside a merge or the
\* schema creation of open at once, and no task runs the transaction of its
\* ledger mark while another is inside one of those.
C25_OneCacheWriter ==
    [][ /\ \A t \in Active : \A u \in Active \ {t} : ~(Writing(t) /\ Writing(u))
        /\ \A t \in Active :
              ( task[t].pc = "mark" /\ task'[t] # task[t] )
              => \A u \in Active \ {t} : ~Writing(u) ]_vars

\* the merges and the schema creation alone: never two at once, and always
\* under the lock
C25_MergesSerialized ==
    \A t \in Active :
        Writing(t) => lock = t /\ \A u \in Active \ {t} : ~Writing(u)

\* C26: concurrent tasks, every await returning and every task scheduled
\* again.  A load that has committed its merge for an aspect it found
\* unmarked is followed by a state where the ledger holds the aspect and the
\* load has gone on to its cache read.
C26_MergedIsEventuallyMarked ==
    \A t \in ConcTasks :
        ( task[t].pc = "mark" )
        ~> ( /\ task[t].pc \in {"cread", "done"}
             /\ task[t].contacted
             /\ AspectOf(task[t]) \in ledger )

\* a load has merged the rows of a relation and not yet marked it
C26_Witness ==
    \E t \in ConcTasks :
        /\ task[t].pc = "mark"
        /\ task[t].tag # "-"
        /\ task[t].rows # {}
        /\ task[t].rows \subseteq CacheRows
        /\ AspectOf(task[t]) \notin ledger

\* C27: a load by identity of a row whose cache object this session already
\* holds, wrapped, returns that wrapper in the step of the call: no ledger
\* lookup is awaited, and the lock, the stores and the origin are left
\* alone.
C27_LoadOfMaterializedAnswersAtOnce ==
    [][ \A t \in Active :
          ( /\ ops' = ops + 1
            /\ task'[t] # task[t]
            /\ task'[t].op = "load"
            /\ IsLive(opened)
            /\ imap[task'[t].target].present
            /\ imap[task'[t].target].wrapper # NoWrapper )
          => /\ task'[t].pc = "done"
             /\ task'[t].res.ws
                   = {<<task'[t].target, imap[task'[t].target].wrapper>>}
             /\ UNCHANGED <<Stores, lock, originCalls>> ]_vars

\* the identities the statement of A.also_bs selects in the cache store for
\* parent a
SelectedInCache(a) ==
    {r.key : r \in {x \in CacheRows : /\ x.key[1] = "B"
                                      /\ x.a_id = a
                                      /\ \E p \in CacheRows : p.key = <<"A", a>>}}

\* C28: sequential calls, the origin changing between them.  A load by
\* query is tracked by the one ledger entry (entity type of the wrapper
\* class, context identity, tag).  Once a load with that key has fetched
\* from origin, a load with the key whose effective mode is PREFER_CACHE or
\* OFFLINE returns without going to origin; a load that fetched and returned
\* has left the entry in the ledger; and every load by query returns the
\* wrappers of exactly the rows the statement selects in the cache store as
\* it is read, whatever rows were merged.
C28_QueryLedgerAndReread ==
    \A t \in Active :
        ( Loaded(t) /\ task[t].op = "query" )
        => /\ AspectOf(task[t]) = <<"B", ToString(task[t].target[2]), "A.bs">>
           /\ ( task[t].known /\ task[t].emode \in {OFFLINE, PREFER_CACHE} )
                 => ~task[t].contacted /\ Returned(t)
           /\ ( task[t].contacted /\ Returned(t) )
                 => AspectOf(task[t]) \in ledger
           /\ Returned(t)
                 => {x[1] : x \in task[t].res.ws}
                       = SelectedInCache(task[t].target[2])

\* a load by query has fetched no row from origin and returned the row the
\* cache store still holds for the parent
C28_Witness ==
    \E t \in Active :
        /\ Returned(t)
        /\ task[t].op = "query"
        /\ task[t].contacted
        /\ task[t].rows = {}
        /\ task[t].res.ws # {}

\* the ledger entry of the identity of the row a by-id field call of task
\* record tk refers to
SentinelOf(tk) == <<"A", ToString(tk.target[2]), "-">>

\* C29: sequential calls.  A by-id field call on a field not materialized
\* loads by identity the row the a_id column of the owner's cache object
\* names: its ledger lookup is that of the identity entry of that row, its
\* steps add no other entry to the ledger, a call that fetched and returned
\* has left that entry there, and what it returns is the one wrapper of
\* that row, the one a load by identity returns.
C29_ByIdDelegates ==
    [][ \A t \in Active :
          ( task'[t].op = "byid" /\ task'[t].stage = 2 /\ task'[t] # task[t] )
          => /\ Ready(t)
                  => /\ task'[t].target = <<"A", ObjOf(task'[t].owner).a_id>>
                     /\ task'[t].pc = "exists"
                     /\ task'[t].emode \in Modes /\ task'[t].emode <= mode
             /\ task[t].pc = "exists"
                  => task'[t].ever = (SentinelOf(task[t]) \in ledger)
             /\ ledger' \ ledger \subseteq {SentinelOf(task'[t])}
             /\ ( task'[t].pc = "done" /\ task'[t].res.kind = "wrapper" )
                  => /\ task'[t].res.ws = {<<task'[t].target, <<sess, 1>>>>}
                     /\ Len(wrappers'[task'[t].target]) = 1
                     /\ wrappers'[task'[t].target][1].adbv = sess
                     /\ task'[t].contacted => SentinelOf(task'[t]) \in ledger' ]_vars

\* a by-id field call has fetched the parent of B(1), marked its identity
\* and returned its wrapper
C29_Witness ==
    \E t \in Active :
        /\ Returned(t)
        /\ task[t].op = "byid"
        /\ task[t].stage = 2
        /\ task[t].owner[1] = <<"B", 1>>
        /\ task[t].contacted
        /\ ~task[t].ever
        /\ SentinelOf(task[t]) \in ledger
        /\ task[t].res.ws = {<<<<"A", 1>>, <<sess, 1>>>>}

\* task t is inside a load, suspended at one of its awaits
InFlight(t) ==
    task[t].pc \in {"exists", "cread", "brefresh", "origin", "macq", "mcommit",
                    "mark"}

\* C30: concurrent tasks.  Once the instance is closed, a load that is
\* still in flight does nothing more to the stores, the identity map, the
\* wrappers or the origin: its next step ends it with NotLive.
C30_NoLoadStepAfterClose ==
    [][ \A t \in Active :
          ( /\ opened = "False"
            /\ InFlight(t)
            /\ task'[t] # task[t] )
          => /\ task'[t].pc = "done"
             /\ task'[t].res = ErrRes("NotLive_closed")
             /\ UNCHANGED <<Stores, imap, wrappers, originCalls, lock>> ]_vars

\* C31: sequential calls.  Stage 2 of a load by identity reads the cache if
\* and only if the mode is not FRESHEN and the ledger holds the identity
\* sentinel of the row; whether the row is in the cache store plays no part.
\* Without the sentinel the load ends in IsOffline or the fallback under
\* OFFLINE and goes to origin otherwise, and the step itself changes nothing.
C31_LedgerAloneDecides ==
    [][ \A t \in Active :
          ( /\ task[t].pc = "exists"
            /\ task[t].op \in {"load", "byid"}
            /\ task'[t] # task[t] )
          => /\ task'[t].pc = "cread"
                   <=> /\ task[t].emode # FRESHEN
                       /\ <<task[t].target[1], ToString(task[t].target[2]), "-">>
                             \in ledger
             /\ task'[t].pc # "cread"
                   => IF task[t].emode = OFFLINE
                      THEN /\ task'[t].res
                                = IF task[t].fb THEN Fallback ELSE ErrRes("IsOffline")
                           /\ task'[t].pc = "done"
                                \/ ( task[t].op = "byid" /\ task[t].fb
                                     /\ task'[t].pc = "brefresh" )
                      ELSE task'[t].pc = "origin"
             /\ UNCHANGED <<Stores, imap, wrappers, originCalls>> ]_vars

\* a child row merged as a member of a relation, never loaded by identity,
\* is loaded by identity under OFFLINE: IsOffline, with the row in the cache
C31_Witness ==
    \E t \in Active :
        /\ Loaded(t) /\ task[t].op = "load" /\ task[t].target = <<"B", 1>>
        /\ task[t].emode = OFFLINE
        /\ RowsOf(CacheRows, <<"B", 1>>) # {}
        /\ <<"B", "1", "-">> \notin ledger
        /\ task[t].res = ErrRes("IsOffline")

\* the wrapper type declared for the entity type of a row
DeclaredFor(k) == IF k[1] = "A" THEN "WA" ELSE "WB"

\* C32: every wrapper is of the wrapper type declared for the entity type
\* of the row it wraps.
C32_WrapperTypeDeclared ==
    \A k \in Keys : \A n \in 1..Len(wrappers[k]) : wrappers[k][n].cls = DeclaredFor(k)

\* C33: concurrent tasks, every await returning and every task scheduled
\* again.  No task waits for the lock while it holds it, the lock is held
\* only by a task inside the guarded section of open or of merge (so it is
\* released when that section ends, by a return or by a raise), and every
\* load in flight comes to its end, with a value or an error.
C33_LockNeverSticks ==
    /\ [](\A t \in ConcTasks :
             /\ task[t].pc \in {"macq", "open_wait"} => lock # t
             /\ lock = t => task[t].pc \in {"mcommit", "open_fin"})
    /\ \A t \in ConcTasks :
          InFlight(t) ~> ( task[t].pc = "done" /\ task[t].res.kind # "none" )

\* a merge failed on an origin miss, and the lock it held is now held by the
\* merge of the other task
C33_Witness ==
    \E t \in ConcTasks, u \in ConcTasks :
        /\ t # u
        /\ Loaded(t) /\ task[t].contacted /\ task[t].op = "load"
        /\ task[t].res = ErrRes("LookupFailure")
        /\ task[u].pc = "mcommit" /\ lock = u

\* the rows a FRESHEN load of task t fetched from origin, t having returned
Fetched(t) ==
    IF Returned(t) /\ task[t].op = "load" /\ task[t].emode = FRESHEN
       /\ task[t].contacted
    THEN task[t].rows ELSE {}

\* C34: concurrent FRESHEN loads of a row whose name counts its renames at
\* origin.  The name a load returns is not older than the name it fetched,
\* and once no load is in flight the name in the cache store is not older
\* than the name any of the loads fetched.
C34_NoRegress ==
    \A t \in Active : \A r \in Fetched(t) :
        /\ \A v \in task[t].res.vals : v.key = r.key => v.name >= r.name
        /\ ( \A u \in Active : Ready(u) )
              => \A c \in RowsOf(CacheRows, r.key) : c.name >= r.name

\* the result of an offline miss
Missed(r) == r \in {Fallback, ErrRes("IsOffline")}

\* C35: sequential calls.  No step of a load that ends in IsOffline or in
\* the fallback changes the ledger, the rows of the cache store or, for the
\* loader of a wrapper, whether the requested field is materialized on the
\* wrapper's cache object.
C35_OfflineMissChangesNothing ==
    [][ \A t \in Active :
          ( /\ task'[t] # task[t]
            /\ task'[t].op \in LoadOps
            /\ Missed(task'[t].res) )
          => /\ UNCHANGED <<ledger, cache>>
             /\ task[t].owner # NoOwner
                   => ObjOf(task[t].owner).loaded' = ObjOf(task[t].owner).loaded
      ]_vars

\* the identities of the rows a load returned
Members(tk) == {x[1] : x \in tk.res.ws}

\* C36: after a relation cached before lost or gained members at origin, a
\* load of the relation that fetches under FRESHEN returns the members the
\* fetch found, and once a FRESHEN load of the relation has run every load
\* of it returns the members origin holds.
C36_LostMembersLeave ==
    \A t \in Active :
        ( /\ Returned(t)
          /\ task[t].op \in {"field", "query"}
          /\ CachedBefore(task[t]) )
        => /\ ( task[t].emode = FRESHEN /\ task[t].contacted )
                 => Members(task[t]) = KeysOf(task[t].rows)
           /\ AspectOf(task[t]) \in freshened
                 => Members(task[t]) = KeysOf(NewValue(task[t]))
====
